---- MODULE Spec2Model ----
(***************************************************************************)
(* Model of the fake-news pipeline's shared store (articles, fact_checks)  *)
(* and of the semantic matcher / labeler (scrapers/labeler.py), together   *)
(* with the two ingestion writers that feed it.                            *)
(*                                                                         *)
(* Conventions                                                             *)
(*  - a Python string is a sequence of one-character strings;              *)
(*  - a nullable value (SQL NULL / Python None) is a set with at most one  *)
(*    element: NULL == {} and a present value x is {x};                    *)
(*  - a cosine similarity is an integer number of hundredths (0.85 = 85);  *)
(*  - an article's id is its position in the articles sequence             *)
(*    (INTEGER PRIMARY KEY AUTOINCREMENT, rows are never deleted).         *)
(***************************************************************************)
EXTENDS Integers, Sequences, FiniteSets, TLC

VARIABLES
    articles,       \* table articles, in id order
    fact_checks,    \* table fact_checks, in id order
    pc,             \* position of the labeler: "idle", "loop", "update"
    articles_df,    \* run_matcher local `articles`: rows [id, title]
    facts_df,       \* run_matcher local `facts`: rows [id, claim, verdict]
    i,              \* run_matcher loop index (1-based)
    matches_found,  \* run_matcher local
    count,          \* run_matcher local
    open_conns,     \* connections opened by update_article_label, not yet closed
    report,         \* what the last labeler invocation printed on exit
    start_articles, \* the articles table as it was when the run began
    tagged,         \* ids whose UPDATE was committed in the run
    db_errors,      \* ids whose UPDATE raised inside the try block in the run
    potentials,     \* ids printed as "Potential Match" in the run
    label_writes,   \* per article id: committed labeler UPDATEs, over all runs
    prev_run,       \* how the invocation right before this one ended
    m_verdict,      \* verdict-mapper harness: the verdict text as given
    m_recased,      \* verdict-mapper harness: the same text in another casing
    m_label,        \* verdict-mapper harness: result for m_verdict
    m_relabel,      \* verdict-mapper harness: result for m_recased
    m_done,         \* verdict-mapper harness: the mapper has been applied
    last_call,      \* the last call of an ingestion writer and what it returned
    predictions,    \* table predictions, in id order
    lake_pc,        \* position of the scoring script: "idle", "save"
    lake_df,        \* test_lake.py `df`: rows [id, pred_label, confidence]
    lake_report,    \* how the last scoring invocation ended
    hunter_pc,      \* position of news_hunter.py: "idle", "feeds", "entries"
    feed_idx,       \* news_hunter.py: feeds of RSS_SOURCES taken up so far
    entries,        \* process_feed: number of entries still to do
    saved_count,    \* process_feed local
    total_saved,    \* news_hunter.py __main__ local
    hunter_report,  \* how the last news_hunter.py invocation ended
    u_call,         \* update harness: the arguments of update_article_label
    u_before,       \* update harness: both tables before the call
    u_outcome       \* update harness: "pending", or how the call ended

store_vars == <<articles, fact_checks>>
run_vars == <<pc, articles_df, facts_df, i, matches_found, count, open_conns>>
obs_vars == <<report, start_articles, tagged, db_errors, potentials,
              label_writes, prev_run>>
map_vars == <<m_verdict, m_recased, m_label, m_relabel, m_done>>
lake_vars == <<predictions, lake_pc, lake_df, lake_report>>
hunter_vars == <<hunter_pc, feed_idx, entries, saved_count, total_saved,
                 hunter_report>>
upd_vars == <<u_call, u_before, u_outcome>>
\* What the labeler and the single ingestion calls never touch.
other_vars == <<map_vars, lake_vars, hunter_vars, upd_vars>>
vars == <<articles, fact_checks, pc, articles_df, facts_df, i, matches_found,
          count, open_conns, report, start_articles, tagged, db_errors,
          potentials, label_writes, prev_run, m_verdict, m_recased, m_label,
          m_relabel, m_done, last_call, predictions, lake_pc, lake_df,
          lake_report, hunter_pc, feed_idx, entries, saved_count, total_saved,
          hunter_report, u_call, u_before, u_outcome>>

NULL == {}

Some(x) == {x}

(***************************************************************************)
(* Bounds of the model.                                                    *)
(***************************************************************************)
MaxArticles == 2

MaxFacts == 2

MaxCasePos == 3

\* Rows of a drawn article table.
MaxStoreRows == 2

\* len(RSS_SOURCES)
NumFeeds == 6

\* feed.entries[:5]
EntriesPerFeed == 5

(***************************************************************************)
(* Strings.                                                                *)
(***************************************************************************)
LowerAlphabet ==
    <<"a","b","c","d","e","f","g","h","i","j","k","l","m",
      "n","o","p","q","r","s","t","u","v","w","x","y","z">>

UpperAlphabet ==
    <<"A","B","C","D","E","F","G","H","I","J","K","L","M",
      "N","O","P","Q","R","S","T","U","V","W","X","Y","Z">>

LowerChar(c) ==
    IF \E k \in 1..26 : UpperAlphabet[k] = c
    THEN LowerAlphabet[CHOOSE k \in 1..26 : UpperAlphabet[k] = c]
    ELSE c

UpperChar(c) ==
    IF \E k \in 1..26 : LowerAlphabet[k] = c
    THEN UpperAlphabet[CHOOSE k \in 1..26 : LowerAlphabet[k] = c]
    ELSE c

\* str.lower()
lower(s) == [k \in 1..Len(s) |-> LowerChar(s[k])]

\* Python's `x in v` on strings: x occurs in v as a contiguous substring.
Contains(x, v) ==
    \E k \in 1..(Len(v) - Len(x) + 1) : SubSeq(v, k, k + Len(x) - 1) = x

S_false == <<"f","a","l","s","e">>

S_pants_fire == <<"p","a","n","t","s","-","f","i","r","e">>

S_barely_true == <<"b","a","r","e","l","y","-","t","r","u","e">>

S_true == <<"t","r","u","e">>

S_mostly_true == <<"m","o","s","t","l","y","-","t","r","u","e">>

S_half_true == <<"h","a","l","f","-","t","r","u","e">>

S_full_flop == <<"f","u","l","l","-","f","l","o","p">>

S_half_flip == <<"h","a","l","f","-","f","l","i","p">>

S_no_flip == <<"n","o","-","f","l","i","p">>

S_unknown == <<"u","n","k","n","o","w","n">>

S_empty == <<>>

(***************************************************************************)
(* labeler.py: map_verdict_to_label                                        *)
(***************************************************************************)
FAKE == 1

REAL == 0

FakeIndicators == <<S_false, S_pants_fire, S_barely_true>>

RealIndicators == <<S_true, S_mostly_true>>

\* any(x in v for x in indicators)
AnyIn(indicators, v) ==
    \E k \in 1..Len(indicators) : Contains(indicators[k], v)

\* Mutant: the REAL test is made before the FAKE test.
map_verdict_real_first(verdict_text) ==
    LET v == lower(verdict_text)
    IN  IF AnyIn(RealIndicators, v) THEN Some(REAL)
        ELSE IF AnyIn(FakeIndicators, v) THEN Some(FAKE)
        ELSE NULL

map_verdict_to_label(verdict_text) ==
    LET v == lower(verdict_text)
    IN  IF AnyIn(FakeIndicators, v) THEN Some(FAKE)
        ELSE IF AnyIn(RealIndicators, v) THEN Some(REAL)
        ELSE NULL

(***************************************************************************)
(* The store and the inputs of the two ingestion writers.                  *)
(***************************************************************************)
Titles == {"TitleExact", "TitleAtThr", "TitleHalf", "TitleFar"}

Claims == {"Claim1", "Claim2"}

\* The verdicts PolitiFact items are stored with in this model (the scraper
\* stores them lower-cased): one FAKE indicator, the verdict the mapper's
\* docstring calls ambiguous, and one that matches no indicator.
Verdicts == {S_false, S_half_true, S_unknown}

\* process_feed hands save_article_to_db the tuple
\* (url, source_name, title, text, authors, pub_date); the page behind one
\* url has one title.
UrlOf(title) == <<"https://news.example/", title>>

NewsItems == {[url |-> UrlOf(t), title |-> t] : t \in Titles}

\* scrape_politifact_page hands save_fact_check the tuple
\* (claim_text, verdict, full_link, "PolitiFact").
FactItems ==
    {[claim |-> c, verdict |-> v,
      source_url |-> <<"https://www.politifact.com", c>>,
      checker_site |-> "PolitiFact"] : c \in Claims, v \in Verdicts}

\* Columns verified_label and label_source of a freshly inserted article.
UnlabeledDefault == [verified_label |-> NULL, label_source |-> NULL]

\* The row INSERT creates: the given columns, is_processed DEFAULT 0.
NewArticle(data) ==
    [url |-> data.url, title |-> data.title, is_processed |-> 0,
     verified_label |-> UnlabeledDefault.verified_label,
     label_source |-> UnlabeledDefault.label_source]

\* url TEXT UNIQUE NOT NULL
UrlPresent(arts, url) == \E k \in DOMAIN arts : arts[k].url = url

\* Mutant: fact_checks carries no uniqueness constraint.
FactKeyNever(facts, data) == FALSE

\* Natural key of fact_checks: (claim, verdict, source_url, checker_site).
FactKeyPresent(facts, data) == \E k \in DOMAIN facts : facts[k] = data

\* Mutant: a plain INSERT into a table whose url column is not unique.
InsertArticleAlways(arts, data) == Append(arts, NewArticle(data))

\* INSERT OR IGNORE INTO articles: a row whose url is there is ignored.
InsertOrIgnoreArticle(arts, data) ==
    IF UrlPresent(arts, data.url) THEN arts
    ELSE Append(arts, NewArticle(data))

\* INSERT OR IGNORE INTO fact_checks: a row whose key is there is ignored.
InsertOrIgnoreFact(facts, data) ==
    IF FactKeyPresent(facts, data) THEN facts ELSE Append(facts, data)

(***************************************************************************)
(* The text embedder and util.cos_sim: deterministic per (title, claim).   *)
(* Scores in hundredths.                                                   *)
(***************************************************************************)
cos_sim(title, claim) ==
    CASE title = "TitleExact" -> (IF claim = "Claim1" THEN 100 ELSE 70)
      [] title = "TitleAtThr" -> (IF claim = "Claim1" THEN 85 ELSE 100)
      [] title = "TitleHalf"  -> (IF claim = "Claim1" THEN 40 ELSE 50)
      [] title = "TitleFar"   -> (IF claim = "Claim1" THEN 40 ELSE 10)

RECURSIVE SortedSeq(_)
SortedSeq(S) ==
    IF S = {} THEN <<>>
    ELSE LET m == CHOOSE x \in S : \A y \in S : x <= y
         IN  <<m>> \o SortedSeq(S \ {m})

(***************************************************************************)
(* labeler.py                                                              *)
(***************************************************************************)
SIMILARITY_THRESHOLD == 85

POTENTIAL_THRESHOLD == 50

\* Mutant: the selection forgets its WHERE clause.
get_all_articles(arts) ==
    [k \in DOMAIN arts |-> [id |-> k, title |-> arts[k].title]]

\* SELECT id, title FROM articles WHERE verified_label IS NULL
get_unlabeled_articles(arts) ==
    LET ids == SortedSeq({k \in DOMAIN arts : arts[k].verified_label = NULL})
    IN  [n \in DOMAIN ids |-> [id |-> ids[n], title |-> arts[ids[n]].title]]

\* SELECT id, claim, verdict FROM fact_checks
get_fact_checks(facts) ==
    [k \in DOMAIN facts |->
        [id |-> k, claim |-> facts[k].claim, verdict |-> facts[k].verdict]]

\* cosine_scores[i]: the row of article i against every loaded fact-check
cosine_scores(adf, fdf, n) ==
    [k \in DOMAIN fdf |-> cos_sim(adf[n].title, fdf[k].claim)]

\* tensor.max()
RowMax(row) == CHOOSE s \in {row[k] : k \in DOMAIN row} :
                   \A k \in DOMAIN row : row[k] <= s

\* tensor.argmax(): index of the first maximal value
RowArgMax(row) == CHOOSE k \in DOMAIN row :
                      /\ row[k] = RowMax(row)
                      /\ \A j \in DOMAIN row : row[j] = RowMax(row) => k <= j

\* f"Match with PolitiFact (Sim: {best_score:.2f})"
SourceInfo(best_score) == <<"Match with PolitiFact (Sim: ", best_score, ")">>

\* Mutant: the UPDATE has lost its WHERE clause.
UpdateRowNoWhere(arts, article_id, label, source_info) ==
    [k \in DOMAIN arts |->
        [arts[k] EXCEPT !.verified_label = Some(label),
                        !.label_source = Some(source_info)]]

\* Mutant: the UPDATE sets label_source only.
UpdateRowSourceOnly(arts, article_id, label, source_info) ==
    [k \in DOMAIN arts |->
        IF k = article_id
        THEN [arts[k] EXCEPT !.label_source = Some(source_info)]
        ELSE arts[k]]

\* UPDATE articles SET verified_label = ?, label_source = ? WHERE id = ?
UpdateRow(arts, article_id, label, source_info) ==
    [k \in DOMAIN arts |->
        IF k = article_id
        THEN [arts[k] EXCEPT !.verified_label = Some(label),
                             !.label_source = Some(source_info)]
        ELSE arts[k]]

\* The loop body's view of article n of the batch.
best_score(adf, fdf, n) == RowMax(cosine_scores(adf, fdf, n))

best_fact_idx(adf, fdf, n) == RowArgMax(cosine_scores(adf, fdf, n))

\* Mutant: 0.75, the looser threshold the configuration comment mentions.
IsPotentialHigh(score) == score > 75

\* best_score > 0.5
IsPotential(score) == score > POTENTIAL_THRESHOLD

\* Mutant: strict comparison against the acceptance threshold.
IsAcceptedStrict(score) == score > SIMILARITY_THRESHOLD

\* best_score >= SIMILARITY_THRESHOLD
IsAccepted(score) == score >= SIMILARITY_THRESHOLD

numeric_label(adf, fdf, n) ==
    map_verdict_to_label(fdf[best_fact_idx(adf, fdf, n)].verdict)

\* Mutant: the acceptance threshold is not tested.
QualifiesAnyScore(adf, fdf, n) == numeric_label(adf, fdf, n) # NULL

\* The article of the batch is to be written: lines 128 and 139.
Qualifies(adf, fdf, n) ==
    /\ IsAccepted(best_score(adf, fdf, n))
    /\ numeric_label(adf, fdf, n) # NULL

NoReport == [kind |-> "none", matches |-> 0, potential |-> 0]

Exit(kind) == [kind |-> kind, matches |-> 0, potential |-> 0]

\* articles.empty
articles_empty(adf) == adf = <<>>

\* Mutant: the test for an empty fact-check set is lost.
facts_empty_never(fdf) == FALSE

\* facts.empty
facts_empty(fdf) == fdf = <<>>

\* How the invocation that has just ended (and that no ingestion followed)
\* is remembered by the next one.
EndedAs ==
    CASE report.kind = "none" -> "none"
      [] report.kind \in {"load_failed", "update_crashed", "db_not_found"}
            -> "aborted"
      [] OTHER -> IF db_errors = {} THEN "clean" ELSE "dberr"

ResetObs ==
    /\ articles_df' = <<>>
    /\ facts_df' = <<>>
    /\ i' = 1
    /\ matches_found' = 0
    /\ count' = 0
    /\ UNCHANGED <<pc, open_conns>>
    /\ report' = NoReport
    /\ start_articles' = <<>>
    /\ tagged' = {}
    /\ db_errors' = {}
    /\ potentials' = {}
    /\ prev_run' = "none"

(***************************************************************************)
(* Initial state: the schema exists, both tables are empty.                *)
(***************************************************************************)
NoCall == [op |-> "none", ret |-> FALSE]

NoHunterReport == [kind |-> "none", total |-> 0]

NoLakeReport == [kind |-> "none", articles |-> <<>>, predictions |-> <<>>]

\* The scoring script, the hunter script and the update harness at rest.
OthersIdle ==
    /\ last_call = NoCall
    /\ predictions = <<>>
    /\ lake_pc = "idle"
    /\ lake_df = <<>>
    /\ lake_report = NoLakeReport
    /\ hunter_pc = "idle"
    /\ feed_idx = 0
    /\ entries = 0
    /\ saved_count = 0
    /\ total_saved = 0
    /\ hunter_report = NoHunterReport
    /\ u_call = [id |-> 0, label |-> 0, source |-> <<>>]
    /\ u_before = [articles |-> <<>>, fact_checks |-> <<>>]
    /\ u_outcome = "pending"

\* One process at a time uses the store.
StoreFree == pc = "idle" /\ lake_pc = "idle" /\ hunter_pc = "idle"

MapIdle ==
    /\ m_verdict = <<>>
    /\ m_recased = <<>>
    /\ m_label = NULL
    /\ m_relabel = NULL
    /\ m_done = FALSE

Init ==
    /\ articles = <<>>
    /\ fact_checks = <<>>
    /\ pc = "idle"
    /\ articles_df = <<>>
    /\ facts_df = <<>>
    /\ i = 1
    /\ matches_found = 0
    /\ count = 0
    /\ open_conns = 0
    /\ report = NoReport
    /\ start_articles = <<>>
    /\ tagged = {}
    /\ db_errors = {}
    /\ potentials = {}
    /\ label_writes = <<>>
    /\ prev_run = "none"
    /\ MapIdle
    /\ OthersIdle

(***************************************************************************)
(* news_hunter.py: save_article_to_db (INSERT OR IGNORE on a unique url).  *)
(* The store is used by one process at a time, so the writers run only     *)
(* while the labeler is idle.                                              *)
(***************************************************************************)
save_article_to_db ==
    /\ StoreFree
    /\ \E data \in NewsItems :
          /\ ~UrlPresent(articles, data.url)
          /\ Len(articles) < MaxArticles
          /\ articles' = InsertOrIgnoreArticle(articles, data)
          /\ label_writes' = Append(label_writes, 0)
          /\ last_call' = [op |-> "save_article_to_db", data |-> data,
                           ret |-> TRUE, before |-> articles]
    /\ ResetObs
    /\ UNCHANGED <<fact_checks, other_vars>>

\* c.rowcount is 0: the url is there already; the call returns False.
save_article_duplicate ==
    /\ StoreFree
    /\ \E data \in NewsItems :
          /\ UrlPresent(articles, data.url)
          /\ articles' = InsertOrIgnoreArticle(articles, data)
          /\ last_call' = [op |-> "save_article_to_db", data |-> data,
                           ret |-> FALSE, before |-> articles]
    /\ ResetObs
    /\ UNCHANGED <<fact_checks, label_writes, other_vars>>

(***************************************************************************)
(* politifact_scraper.py: save_fact_check (INSERT OR IGNORE).              *)
(***************************************************************************)
save_fact_check ==
    /\ StoreFree
    /\ \E data \in FactItems :
          /\ ~FactKeyPresent(fact_checks, data)
          /\ Len(fact_checks) < MaxFacts
          /\ fact_checks' = InsertOrIgnoreFact(fact_checks, data)
          /\ last_call' = [op |-> "save_fact_check", data |-> data,
                           ret |-> TRUE]
    /\ ResetObs
    /\ UNCHANGED <<articles, label_writes, other_vars>>

\* c.rowcount is 0: the natural key is there already.
save_fact_check_duplicate ==
    /\ StoreFree
    /\ \E data \in FactItems :
          /\ FactKeyPresent(fact_checks, data)
          /\ fact_checks' = InsertOrIgnoreFact(fact_checks, data)
          /\ last_call' = [op |-> "save_fact_check", data |-> data,
                           ret |-> FALSE]
    /\ ResetObs
    /\ UNCHANGED <<articles, label_writes, other_vars>>

(***************************************************************************)
(* labeler.py: run_matcher, lines 77-112.  Loading the model, reading      *)
(* either table or encoding may raise; nothing in run_matcher catches it.  *)
(***************************************************************************)
\* Mutant: the failed load is caught and reported, and the pass goes on.
load_raised_swallowed ==
    /\ report' = Exit("load_failed")
    /\ pc' = "loop"
    /\ articles_df' = get_unlabeled_articles(articles)
    /\ facts_df' = get_fact_checks(fact_checks)

\* Lines 79-84 stand in no try block: SentenceTransformer(...), or either
\* pd.read_sql_query, raises, and the exception ends run_matcher there.
load_raised ==
    /\ report' = Exit("load_failed")
    /\ pc' = "idle"
    /\ articles_df' = <<>>
    /\ facts_df' = <<>>

run_matcher_start ==
    /\ StoreFree
    /\ last_call' = NoCall
    /\ prev_run' = EndedAs
    /\ start_articles' = articles
    /\ tagged' = {}
    /\ db_errors' = {}
    /\ potentials' = {}
    /\ i' = 1
    /\ matches_found' = 0
    /\ count' = 0
    /\ \E loaded \in BOOLEAN :
          LET adf == get_unlabeled_articles(articles)
              fdf == get_fact_checks(fact_checks)
              stop(kind) == /\ report' = Exit(kind)
                            /\ pc' = "idle"
                            /\ articles_df' = IF loaded THEN adf ELSE <<>>
                            /\ facts_df' = IF loaded THEN fdf ELSE <<>>
          IN  IF ~loaded THEN load_raised
              ELSE IF articles_empty(adf) THEN stop("no_articles")
              ELSE IF facts_empty(fdf) THEN stop("no_facts")
              \* encoding and reducing an empty fact list raises
              ELSE IF fdf = <<>> THEN stop("crashed")
              ELSE /\ report' = NoReport
                   /\ pc' = "loop"
                   /\ articles_df' = adf
                   /\ facts_df' = fdf
    /\ UNCHANGED <<store_vars, open_conns, label_writes, other_vars>>

(***************************************************************************)
(* run_matcher, lines 114-150: one iteration of the loop, up to the call   *)
(* of update_article_label and that call's sqlite3.connect (lines 59-60,   *)
(* which stand before the try block).                                      *)
(***************************************************************************)
matcher_step ==
    /\ pc = "loop"
    /\ i <= Len(articles_df)
    /\ LET s == best_score(articles_df, facts_df, i)
           id == articles_df[i].id
       IN  /\ count' = IF IsPotential(s) THEN count + 1 ELSE count
           /\ potentials' = IF IsPotential(s) THEN potentials \cup {id}
                            ELSE potentials
           /\ IF Qualifies(articles_df, facts_df, i)
              THEN \E connected \in BOOLEAN :
                      IF connected
                      THEN /\ pc' = "update"
                           /\ open_conns' = open_conns + 1
                           /\ UNCHANGED report
                      ELSE /\ pc' = "idle"
                           /\ report' = Exit("update_crashed")
                           /\ UNCHANGED open_conns
              ELSE /\ UNCHANGED <<pc, open_conns, report>>
           /\ i' = IF Qualifies(articles_df, facts_df, i) THEN i ELSE i + 1
    /\ UNCHANGED <<store_vars, articles_df, facts_df, matches_found,
                   start_articles, tagged, db_errors, label_writes, prev_run,
                   last_call, other_vars>>

(***************************************************************************)
(* update_article_label, lines 61-74, and the caller's line 147.  Either   *)
(* execute and commit succeed, or one of them raises, which the except     *)
(* clause prints; the finally clause closes the connection, and an         *)
(* uncommitted UPDATE is lost with it.                                     *)
(***************************************************************************)
update_article_label ==
    /\ pc = "update"
    /\ LET s == best_score(articles_df, facts_df, i)
           id == articles_df[i].id
           label == CHOOSE l \in numeric_label(articles_df, facts_df, i) : TRUE
       IN  \E committed \in BOOLEAN :
              /\ articles' = IF committed
                             THEN UpdateRow(articles, id, label, SourceInfo(s))
                             ELSE articles
              /\ tagged' = IF committed THEN tagged \cup {id} ELSE tagged
              /\ label_writes' =
                    IF committed /\ id \in DOMAIN label_writes
                    THEN [label_writes EXCEPT ![id] = @ + 1]
                    ELSE label_writes
              /\ db_errors' = IF committed THEN db_errors
                              ELSE db_errors \cup {id}
    /\ open_conns' = open_conns - 1
    /\ matches_found' = matches_found + 1
    /\ i' = i + 1
    /\ pc' = "loop"
    /\ UNCHANGED <<fact_checks, articles_df, facts_df, count, report,
                   start_articles, potentials, prev_run, last_call,
                   other_vars>>

(***************************************************************************)
(* run_matcher, lines 152-154: the summary.                                *)
(***************************************************************************)
matcher_finish ==
    /\ pc = "loop"
    /\ i > Len(articles_df)
    /\ report' = [kind |-> "complete", matches |-> matches_found,
                  potential |-> count]
    /\ pc' = "idle"
    /\ UNCHANGED <<store_vars, articles_df, facts_df, i, matches_found, count,
                   open_conns, start_articles, tagged, db_errors, potentials,
                   label_writes, prev_run, last_call, other_vars>>

(***************************************************************************)
(* labeler.py, lines 156-158: os.path.exists(DB_PATH) is false; the script *)
(* prints "Database not found" and run_matcher is not called.              *)
(***************************************************************************)
main_db_missing ==
    /\ StoreFree
    /\ last_call' = NoCall
    /\ prev_run' = EndedAs
    /\ start_articles' = articles
    /\ tagged' = {}
    /\ db_errors' = {}
    /\ potentials' = {}
    /\ i' = 1
    /\ matches_found' = 0
    /\ count' = 0
    /\ articles_df' = <<>>
    /\ facts_df' = <<>>
    /\ report' = Exit("db_not_found")
    /\ UNCHANGED <<pc, store_vars, open_conns, label_writes, other_vars>>

Next ==
    \/ save_article_to_db
    \/ save_article_duplicate
    \/ save_fact_check
    \/ save_fact_check_duplicate
    \/ run_matcher_start
    \/ matcher_step
    \/ update_article_label
    \/ matcher_finish
    \/ main_db_missing

Spec == Init /\ [][Next]_vars

TypeOK ==
    /\ pc \in {"idle", "loop", "update"}
    /\ Len(articles) <= MaxArticles
    /\ Len(fact_checks) <= MaxFacts
    /\ \A k \in DOMAIN articles :
          articles[k].verified_label \in {NULL, Some(FAKE), Some(REAL)}
    /\ open_conns \in {0, 1}
    /\ DOMAIN label_writes = DOMAIN articles

(***************************************************************************)
(* The verdict mapper on its own: Init draws a verdict from the vocabulary *)
(* in some casing, and a second casing of the same text; the one action    *)
(* applies map_verdict_to_label to both.                                   *)
(***************************************************************************)
MapVocabulary ==
    {S_false, S_pants_fire, S_barely_true, S_true, S_mostly_true,
     S_half_true, S_full_flop, S_half_flip, S_no_flip, S_unknown, S_empty}

CaseMasks(v) ==
    (SUBSET {k \in 1..Len(v) : k <= MaxCasePos}) \cup {1..Len(v)}

Recase(v, mask) ==
    [k \in 1..Len(v) |-> IF k \in mask THEN UpperChar(v[k]) ELSE v[k]]

InitMap ==
    /\ articles = <<>>
    /\ fact_checks = <<>>
    /\ pc = "idle"
    /\ articles_df = <<>>
    /\ facts_df = <<>>
    /\ i = 1
    /\ matches_found = 0
    /\ count = 0
    /\ open_conns = 0
    /\ report = NoReport
    /\ start_articles = <<>>
    /\ tagged = {}
    /\ db_errors = {}
    /\ potentials = {}
    /\ label_writes = <<>>
    /\ prev_run = "none"
    /\ \E v \in MapVocabulary :
          /\ m_verdict \in {Recase(v, mask) : mask \in CaseMasks(v)}
          /\ m_recased \in {Recase(v, mask) : mask \in CaseMasks(v)}
    /\ m_label = NULL
    /\ m_relabel = NULL
    /\ m_done = FALSE
    /\ OthersIdle

apply_map_verdict ==
    /\ ~m_done
    /\ m_label' = map_verdict_to_label(m_verdict)
    /\ m_relabel' = map_verdict_to_label(m_recased)
    /\ m_done' = TRUE
    /\ UNCHANGED <<store_vars, run_vars, obs_vars, m_verdict, m_recased,
                   last_call, lake_vars, hunter_vars, upd_vars>>

NextMap == apply_map_verdict

SpecMap == InitMap /\ [][NextMap]_vars

(***************************************************************************)
(* Stores the two ingestion writers and the labeler leave behind.  The     *)
(* fact-check table is fixed; an article row is fresh, or carries the      *)
(* label a pass gave it when the table held a prefix of these fact-checks. *)
(***************************************************************************)
HarnessFacts ==
    <<[claim |-> "Claim1", verdict |-> S_false,
       source_url |-> <<"https://www.politifact.com", "Claim1">>,
       checker_site |-> "PolitiFact"],
      [claim |-> "Claim2", verdict |-> S_half_true,
       source_url |-> <<"https://www.politifact.com", "Claim2">>,
       checker_site |-> "PolitiFact"]>>

FreshRow(t) == NewArticle([url |-> UrlOf(t), title |-> t])

\* The row of title t after a pass over the first p fact-checks.
RowAfterPass(t, p) ==
    LET adf == <<[id |-> 1, title |-> t]>>
        fdf == get_fact_checks(SubSeq(HarnessFacts, 1, p))
        label == CHOOSE l \in numeric_label(adf, fdf, 1) : TRUE
    IN  IF Qualifies(adf, fdf, 1)
        THEN UpdateRow(<<FreshRow(t)>>, 1, label,
                       SourceInfo(best_score(adf, fdf, 1)))[1]
        ELSE FreshRow(t)

RowsOf(t) ==
    {FreshRow(t)} \cup {RowAfterPass(t, p) : p \in 1..Len(HarnessFacts)}

LabelledStores ==
    {st \in UNION {[1..n -> UNION {RowsOf(t) : t \in Titles}] :
                      n \in 0..MaxStoreRows} :
        \A j, k \in DOMAIN st : st[j].url = st[k].url => j = k}

\* label_writes of a drawn store: a labelled row was written once.
WritesOf(st) ==
    [k \in DOMAIN st |-> IF st[k].verified_label = NULL THEN 0 ELSE 1]

\* The labeler at rest, no invocation on record.
LabelerIdle ==
    /\ pc = "idle"
    /\ articles_df = <<>>
    /\ facts_df = <<>>
    /\ i = 1
    /\ matches_found = 0
    /\ count = 0
    /\ open_conns = 0
    /\ report = NoReport
    /\ start_articles = <<>>
    /\ tagged = {}
    /\ db_errors = {}
    /\ potentials = {}
    /\ prev_run = "none"

(***************************************************************************)
(* update_article_label on its own: Init draws a store and the arguments   *)
(* of one call, the one action is the call, lines 57-74.                   *)
(***************************************************************************)
UpdateArgs ==
    [id : 0..(MaxStoreRows + 1), label : {FAKE, REAL},
     source : {SourceInfo(SIMILARITY_THRESHOLD), <<"manual">>}]

InitUpdate ==
    /\ articles \in LabelledStores
    /\ fact_checks = HarnessFacts
    /\ label_writes = WritesOf(articles)
    /\ LabelerIdle
    /\ MapIdle
    /\ last_call = NoCall
    /\ predictions = <<>>
    /\ lake_pc = "idle"
    /\ lake_df = <<>>
    /\ lake_report = NoLakeReport
    /\ hunter_pc = "idle"
    /\ feed_idx = 0
    /\ entries = 0
    /\ saved_count = 0
    /\ total_saved = 0
    /\ hunter_report = NoHunterReport
    /\ u_call \in UpdateArgs
    /\ u_before = [articles |-> articles, fact_checks |-> fact_checks]
    /\ u_outcome = "pending"

\* sqlite3.connect raises (lines 59-60, before the try); or execute or
\* commit raises, which is caught and printed; or the UPDATE is committed.
call_update_article_label ==
    /\ u_outcome = "pending"
    /\ \E outcome \in {"raised", "dberr", "returned"} :
          /\ u_outcome' = outcome
          /\ articles' = IF outcome = "returned"
                         THEN UpdateRow(articles, u_call.id, u_call.label,
                                        u_call.source)
                         ELSE articles
          /\ label_writes' =
                IF outcome = "returned" /\ u_call.id \in DOMAIN label_writes
                THEN [label_writes EXCEPT ![u_call.id] = @ + 1]
                ELSE label_writes
    /\ UNCHANGED <<fact_checks, run_vars, report, start_articles, tagged,
                   db_errors, potentials, prev_run, map_vars, last_call,
                   lake_vars, hunter_vars, u_call, u_before>>

NextUpdate == call_update_article_label

SpecUpdate == InitUpdate /\ [][NextUpdate]_vars

(***************************************************************************)
(* test_lake.py: the classifier scoring script.                            *)
(***************************************************************************)
\* What model.predict and model.predict_proba may give for one article:
\* the label and the probability of that label, in hundredths.
PredOutcomes == {[pred_label |-> REAL, confidence |-> 60],
                 [pred_label |-> FAKE, confidence |-> 99]}

\* Mutant: the selection forgets its WHERE clause.
get_pending_all(arts) == [k \in DOMAIN arts |-> [id |-> k]]

\* SELECT id, title, text, source FROM articles WHERE is_processed = 0
get_pending_articles(arts) ==
    LET ids == SortedSeq({k \in DOMAIN arts : arts[k].is_processed = 0})
    IN  [n \in DOMAIN ids |-> [id |-> ids[n]]]

\* INSERT INTO predictions (article_id, model_version, predicted_label,
\* confidence_score) VALUES (?, 'bow_logit_v1', ?, ?)
InsertPrediction(preds, row) ==
    Append(preds, [article_id |-> row.id, model_version |-> "bow_logit_v1",
                   predicted_label |-> row.pred_label,
                   confidence_score |-> row.confidence])

\* UPDATE articles SET is_processed = 1 WHERE id = ?
MarkProcessed(arts, id) ==
    [k \in DOMAIN arts |->
        IF k = id THEN [arts[k] EXCEPT !.is_processed = 1] ELSE arts[k]]

\* Both tables, inside the transaction, after the first k statements of
\* the loop of save_predictions: statement 2j-1 is the INSERT for row j of
\* df, statement 2j its UPDATE.
RECURSIVE AfterStatements(_, _, _)
AfterStatements(st, df, k) ==
    IF k = 0 THEN st
    ELSE LET prev == AfterStatements(st, df, k - 1)
             row == df[(k + 1) \div 2]
         IN  IF k % 2 = 1
             THEN [prev EXCEPT !.predictions = InsertPrediction(@, row)]
             ELSE [prev EXCEPT !.articles = MarkProcessed(@, row.id)]

\* Mutant: every statement is committed as it is executed, so rollback
\* undoes nothing.
save_predictions_autocommit(st, df, fail_at) ==
    IF fail_at > 2 * Len(df)
    THEN AfterStatements(st, df, 2 * Len(df))
    ELSE AfterStatements(st, df, fail_at - 1)

\* Both tables when save_predictions returns, lines 36-57: statement
\* fail_at raises (2 * len(df) + 1 is the commit, beyond that nothing
\* raises); the except clause rolls the transaction back.
save_predictions_result(st, df, fail_at) ==
    IF fail_at > 2 * Len(df) + 1
    THEN AfterStatements(st, df, 2 * Len(df))
    ELSE st

LakeExit(kind) ==
    [kind |-> kind, articles |-> articles, predictions |-> predictions]

\* Lines 13-20 and 60-82: the model is loaded, the pending articles are
\* read and scored.  A missing model file and an empty selection end the
\* script through exit(); any other failure ends it with a traceback.
lake_main ==
    /\ StoreFree
    /\ last_call' = NoCall
    /\ \E outcome \in {"model_not_found", "crashed", "ok"} :
          LET df == get_pending_articles(articles)
          IN  IF outcome # "ok"
              THEN /\ lake_report' = LakeExit(outcome)
                   /\ UNCHANGED <<lake_pc, lake_df>>
              ELSE IF df = <<>>
              THEN /\ lake_report' = LakeExit("no_pending")
                   /\ UNCHANGED <<lake_pc, lake_df>>
              ELSE /\ lake_report' = LakeExit("scored")
                   /\ lake_pc' = "save"
                   /\ \E p \in [DOMAIN df -> PredOutcomes] :
                         lake_df' =
                            [n \in DOMAIN df |->
                               [id |-> df[n].id,
                                pred_label |-> p[n].pred_label,
                                confidence |-> p[n].confidence]]
    /\ UNCHANGED <<store_vars, run_vars, obs_vars, map_vars, predictions,
                   hunter_vars, upd_vars>>

\* save_predictions(df), lines 31-57.  sqlite3.connect stands before the
\* try block (fail_at = 0); everything else is inside it.
save_predictions ==
    /\ lake_pc = "save"
    /\ \E fail_at \in 0..(2 * Len(lake_df) + 2) :
          LET st == [articles |-> articles, predictions |-> predictions]
              res == IF fail_at = 0 THEN st
                     ELSE save_predictions_result(st, lake_df, fail_at)
          IN  /\ articles' = res.articles
              /\ predictions' = res.predictions
              /\ lake_report' =
                    [lake_report EXCEPT !.kind =
                        IF fail_at = 0 THEN "crashed"
                        ELSE IF fail_at > 2 * Len(lake_df) + 1 THEN "saved"
                        ELSE "rolled_back"]
    /\ lake_pc' = "idle"
    /\ UNCHANGED <<fact_checks, run_vars, obs_vars, map_vars, last_call,
                   lake_df, hunter_vars, upd_vars>>

InitLake ==
    /\ articles \in LabelledStores
    /\ fact_checks = HarnessFacts
    /\ label_writes = WritesOf(articles)
    /\ LabelerIdle
    /\ MapIdle
    /\ OthersIdle

NextLake ==
    \/ save_article_to_db
    \/ save_article_duplicate
    \/ lake_main
    \/ save_predictions

SpecLake == InitLake /\ [][NextLake]_vars

(***************************************************************************)
(* news_hunter.py: the article-ingestion script.                           *)
(***************************************************************************)
HunterExit(kind) == [kind |-> kind, total |-> total_saved]

\* __main__, lines 153-163.
hunter_main ==
    /\ StoreFree
    /\ hunter_pc' = "feeds"
    /\ feed_idx' = 0
    /\ total_saved' = 0
    /\ saved_count' = 0
    /\ entries' = 0
    /\ hunter_report' = [kind |-> "running", total |-> 0]
    /\ UNCHANGED <<store_vars, run_vars, obs_vars, map_vars, last_call,
                   lake_vars, upd_vars>>

\* process_feed, lines 100-111, for the next feed of RSS_SOURCES.  When
\* feedparser.parse raises, the except clause prints and process_feed
\* returns None; __main__ then stores None in stats and line 169,
\* total_saved += n_saved, raises TypeError, which nothing catches.  A
\* feed that feedparser could read holds any number of entries, of which
\* the first five are taken.
process_feed_parse ==
    /\ hunter_pc = "feeds"
    /\ feed_idx < NumFeeds
    /\ \E raised \in BOOLEAN :
          IF raised
          THEN /\ hunter_pc' = "idle"
               /\ hunter_report' = HunterExit("type_error")
               /\ UNCHANGED <<entries, saved_count>>
          ELSE /\ hunter_pc' = "entries"
               /\ saved_count' = 0
               /\ \E n \in 0..EntriesPerFeed : entries' = n
               /\ UNCHANGED hunter_report
    /\ UNCHANGED <<store_vars, run_vars, obs_vars, map_vars, last_call,
                   lake_vars, feed_idx, total_saved, upd_vars>>

\* One iteration of the loop of process_feed, lines 119-148.  entry.link
\* is read before the try block; download and parse failures are caught;
\* a text of at most 150 characters is discarded; save_article_to_db
\* returns True for a new url, False for a repeated one or a store error.
process_feed_entry ==
    /\ hunter_pc = "entries"
    /\ entries > 0
    /\ \E outcome \in {"no_link", "scrape_error", "too_short", "db_error",
                         "save"} :
          IF outcome = "no_link"
          THEN /\ hunter_pc' = "idle"
               /\ hunter_report' = HunterExit("no_link")
               /\ UNCHANGED <<articles, label_writes, entries, saved_count>>
          ELSE /\ entries' = entries - 1
               /\ UNCHANGED <<hunter_pc, hunter_report>>
               /\ IF outcome = "save"
                  THEN \E data \in NewsItems :
                          /\ UrlPresent(articles, data.url)
                                \/ Len(articles) < MaxArticles
                          /\ articles' = InsertOrIgnoreArticle(articles, data)
                          /\ label_writes' =
                                IF UrlPresent(articles, data.url)
                                THEN label_writes
                                ELSE Append(label_writes, 0)
                          /\ saved_count' =
                                IF UrlPresent(articles, data.url)
                                THEN saved_count
                                ELSE saved_count + 1
                  ELSE UNCHANGED <<articles, label_writes, saved_count>>
    /\ UNCHANGED <<fact_checks, run_vars, report, start_articles, tagged,
                   db_errors, potentials, prev_run, map_vars, last_call,
                   lake_vars, feed_idx, total_saved, upd_vars>>

\* process_feed, line 149, and __main__, lines 165-169.
process_feed_return ==
    /\ hunter_pc = "entries"
    /\ entries = 0
    /\ total_saved' = total_saved + saved_count
    /\ feed_idx' = feed_idx + 1
    /\ hunter_pc' = "feeds"
    /\ UNCHANGED <<store_vars, run_vars, obs_vars, map_vars, last_call,
                   lake_vars, entries, saved_count, hunter_report, upd_vars>>

\* __main__, lines 171-173: the totals report.
hunter_totals ==
    /\ hunter_pc = "feeds"
    /\ feed_idx = NumFeeds
    /\ hunter_report' = HunterExit("totals")
    /\ hunter_pc' = "idle"
    /\ UNCHANGED <<store_vars, run_vars, obs_vars, map_vars, last_call,
                   lake_vars, feed_idx, entries, saved_count, total_saved,
                   upd_vars>>

NextHunter ==
    \/ hunter_main
    \/ process_feed_parse
    \/ process_feed_entry
    \/ process_feed_return
    \/ hunter_totals

SpecHunter == Init /\ [][NextHunter]_vars

(***************************************************************************)
(* Vocabulary of the properties.  The best match of an article is stated   *)
(* from the tables, not from the labeler's locals.                         *)
(***************************************************************************)
\* The labeler is running or has ended and no ingestion followed.
InRun == pc # "idle" \/ report.kind # "none"

RunEnded == pc = "idle" /\ report.kind \notin {"none", "db_not_found"}

\* The run went through its whole batch and printed the summary.
RunComplete == pc = "idle" /\ report.kind = "complete"

\* Articles the run began with and that had no label then.
UnlabeledAtStart ==
    {a \in DOMAIN start_articles : start_articles[a].verified_label = NULL}

ScoreOf(a, k) == cos_sim(start_articles[a].title, fact_checks[k].claim)

\* The highest similarity of article a against the fact-checks.
BestOf(a) ==
    CHOOSE s \in {ScoreOf(a, k) : k \in DOMAIN fact_checks} :
        \A k \in DOMAIN fact_checks : ScoreOf(a, k) <= s

\* The best-matching fact-check of article a: the first one at BestOf(a).
BestFactOf(a) ==
    CHOOSE k \in DOMAIN fact_checks :
        /\ ScoreOf(a, k) = BestOf(a)
        /\ \A j \in DOMAIN fact_checks : ScoreOf(a, j) = BestOf(a) => k <= j

BestVerdictOf(a) == fact_checks[BestFactOf(a)].verdict

RowUnchanged(a) == articles[a] = start_articles[a]

C2_HalfTrueLeftUnmodified ==
    RunComplete =>
        \A a \in UnlabeledAtStart :
            (BestOf(a) >= 85 /\ BestVerdictOf(a) = S_half_true) =>
                /\ articles[a].verified_label = NULL
                /\ articles[a].label_source = NULL

BatchWithBestIn(lo, hi) ==
    {a \in UnlabeledAtStart : lo <= BestOf(a) /\ BestOf(a) <= hi}

\* C4 as stated: after a pass, every article with 0.5 <= s < 0.85 has been
\* printed and counted as a potential match and has not been written.
C4_PotentialFromHalfInclusive ==
    RunComplete =>
        /\ \A a \in BatchWithBestIn(50, 84) :
              a \in potentials /\ RowUnchanged(a)
        /\ report.potential >= Cardinality(BatchWithBestIn(50, 84))

\* C4 amended: after a pass, every article with 0.5 < s < 0.85 has been
\* printed and counted as a potential match and has not been written, and
\* an article at exactly 0.5 is neither printed nor written.
C4_PotentialAboveHalf ==
    RunComplete =>
        /\ \A a \in BatchWithBestIn(51, 84) :
              a \in potentials /\ RowUnchanged(a)
        /\ report.potential >= Cardinality(BatchWithBestIn(51, 84))
        /\ \A a \in BatchWithBestIn(50, 50) :
              a \notin potentials /\ RowUnchanged(a)

C4_Witness ==
    /\ RunComplete
    /\ \E a \in BatchWithBestIn(51, 84) : a \in potentials
    /\ \E a \in BatchWithBestIn(50, 50) : a \notin potentials
    /\ report.potential = 1

\* C5: during and after a pass, a row that differs from what it was at the
\* start has a best score >= 0.85 and a best-matching verdict that maps to
\* a label; and an article whose best score is < 0.5 is not counted as a
\* potential match.
C5_WriteOnlyAboveThreshold ==
    (InRun /\ fact_checks # <<>>) =>
        /\ \A a \in DOMAIN start_articles :
              ~RowUnchanged(a) =>
                  /\ a \in UnlabeledAtStart
                  /\ BestOf(a) >= 85
                  /\ map_verdict_to_label(BestVerdictOf(a)) # NULL
        /\ \A a \in UnlabeledAtStart : BestOf(a) < 50 => a \notin potentials
        /\ report.potential <=
              Cardinality({a \in UnlabeledAtStart : BestOf(a) >= 50})

C5_Witness ==
    /\ RunComplete
    /\ \E a \in UnlabeledAtStart : BestOf(a) < 50 /\ RowUnchanged(a)
    /\ \E a \in UnlabeledAtStart :
          /\ BestOf(a) \in 50..84
          /\ BestVerdictOf(a) = S_false
          /\ RowUnchanged(a)

\* C6: a pass that starts with no unlabeled article writes nothing (the
\* articles table and the fact-checks it read are as before) and reports
\* no match: it ends on the "no pending articles" exit unless loading
\* failed.
C6_NoUnlabeledNoWrites ==
    (RunEnded /\ UnlabeledAtStart = {}) =>
        /\ articles = start_articles
        /\ tagged = {}
        /\ report.matches = 0
        /\ report.kind \in {"no_articles", "load_failed"}
        /\ report.kind = "no_articles" =>
              facts_df = get_fact_checks(fact_checks)

C6_Witness ==
    /\ RunEnded
    /\ report.kind = "no_articles"
    /\ Len(start_articles) > 0
    /\ Len(fact_checks) > 0

\* C7: a pass that starts with an empty fact_checks table writes nothing
\* and reports no match, however many unlabeled articles there are: it
\* ends on one of the two "nothing to do" exits unless loading failed.
C7_NoFactsNoWrites ==
    (RunEnded /\ fact_checks = <<>>) =>
        /\ articles = start_articles
        /\ tagged = {}
        /\ report.matches = 0
        /\ report.kind \in {"no_articles", "no_facts", "load_failed"}

C7_Witness ==
    /\ RunEnded
    /\ report.kind = "no_facts"
    /\ Cardinality(UnlabeledAtStart) >= 2

C9_LabeledAtMostOnce ==
    /\ \A a \in DOMAIN label_writes : label_writes[a] <= 1
    /\ \A a \in DOMAIN articles :
          articles[a].verified_label = NULL => label_writes[a] = 0
    /\ pc # "idle" =>
          /\ \A m, n \in DOMAIN articles_df :
                articles_df[m].id = articles_df[n].id => m = n
          /\ \A n \in DOMAIN articles_df :
                articles_df[n].id \in UnlabeledAtStart

C9_Witness ==
    /\ pc = "loop"
    /\ i > Len(articles_df)
    /\ \E a \in DOMAIN start_articles :
          /\ start_articles[a].verified_label # NULL
          /\ label_writes[a] = 1
    /\ \E a \in tagged : a \in UnlabeledAtStart /\ label_writes[a] = 1

\* C10: a store failure while one article is updated does not abort the
\* batch: a pass that entered its loop ends only after every article of
\* the batch was evaluated, the labels it committed are in the table, and
\* no connection is left open.
C10_StoreFailureDoesNotAbortBatch ==
    (pc = "idle" /\ report.kind \in {"complete", "update_crashed"}) =>
        /\ i > Len(articles_df)
        /\ \A a \in tagged : articles[a].verified_label # NULL
        /\ open_conns = 0

\* C11: an invocation in which loading the model or either input set
\* failed, or which found no store file, has ended without entering the
\* loop: no update_article_label call was made, no connection was opened
\* for one, and every article row is what it was when the invocation began.
C11_FailedLoadWritesNothing ==
    report.kind \in {"load_failed", "db_not_found"} =>
        /\ pc = "idle"
        /\ i = 1
        /\ matches_found = 0
        /\ tagged = {}
        /\ db_errors = {}
        /\ open_conns = 0
        /\ articles = start_articles

\* A failed load in a store that held a qualifying pair.
C11_Witness ==
    /\ report.kind = "load_failed"
    /\ pc = "idle"
    /\ \E a \in DOMAIN articles, k \in DOMAIN fact_checks :
          /\ articles[a].verified_label = NULL
          /\ cos_sim(articles[a].title, fact_checks[k].claim) = 100
          /\ map_verdict_to_label(fact_checks[k].verdict) = Some(FAKE)

\* The batch articles whose best score is above one half, the accepted
\* ones among them.
BatchAboveHalf == {a \in UnlabeledAtStart : BestOf(a) > POTENTIAL_THRESHOLD}

\* The batch articles for which update_article_label was called.
BatchAccepted ==
    {a \in UnlabeledAtStart :
        /\ BestOf(a) >= SIMILARITY_THRESHOLD
        /\ map_verdict_to_label(BestVerdictOf(a)) # NULL}

\* C14 as stated: a completed pass reports the number of accepted matches
\* and the number of articles whose best score lies in [0.5, 0.85), an
\* accepted article not being among the latter.
C14_PotentialCountExcludesAccepted ==
    RunComplete =>
        /\ report.matches = Cardinality(BatchAccepted)
        /\ report.potential = Cardinality(BatchWithBestIn(50, 84))

\* C14 amended: a completed pass reports the number of articles for which
\* update_article_label was called, and the number of articles whose best
\* score is above 0.5, those at or above 0.85 included.
C14_PotentialCountIncludesAccepted ==
    RunComplete =>
        /\ report.matches = Cardinality(BatchAccepted)
        /\ report.potential = Cardinality(BatchAboveHalf)
        /\ report.potential >= report.matches

\* An accepted article and a sub-threshold one in the same pass.
C14_Witness ==
    /\ RunComplete
    /\ report.matches = 1
    /\ report.potential = 2
    /\ Cardinality(BatchWithBestIn(51, 84)) = 1

\* C18: the accepted-match count of a completed pass is the number of
\* article rows whose verified_label the pass wrote and committed.
C18_ReportedMatchesAreCommitted ==
    RunComplete => report.matches = Cardinality(tagged)

\* The rows of fact_checks that carry the four fields of the given tuple.
FactRowsOf(data) == {k \in DOMAIN fact_checks : fact_checks[k] = data}

\* C13: no two rows of fact_checks agree on claim, verdict, source_url and
\* checker_site, and after a save_fact_check call, first or repeated, the
\* tuple it was given is stored in exactly one row.
C13_FactCheckNaturalKeyUnique ==
    /\ \A j, k \in DOMAIN fact_checks :
          fact_checks[j] = fact_checks[k] => j = k
    /\ last_call.op = "save_fact_check" =>
          Cardinality(FactRowsOf(last_call.data)) = 1

\* A repeated call, in a table that holds the same claim under another
\* verdict as well.
C13_Witness ==
    /\ last_call.op = "save_fact_check"
    /\ ~last_call.ret
    /\ Cardinality(FactRowsOf(last_call.data)) = 1
    /\ \E k \in DOMAIN fact_checks :
          /\ fact_checks[k].claim = last_call.data.claim
          /\ fact_checks[k].verdict # last_call.data.verdict

\* C15: when update_article_label has ended, fact_checks and every article
\* row other than the one whose id was given are what they were before the
\* call; after a committed call that row has the given label and source
\* and its other columns are what they were; when no row has the id, or
\* the call failed, the table is what it was.
C15_UpdateTouchesOneRow ==
    u_outcome # "pending" =>
        /\ fact_checks = u_before.fact_checks
        /\ DOMAIN articles = DOMAIN u_before.articles
        /\ \A k \in DOMAIN articles :
              IF k = u_call.id /\ u_outcome = "returned"
              THEN /\ articles[k].verified_label = Some(u_call.label)
                   /\ articles[k].label_source = Some(u_call.source)
                   /\ articles[k].url = u_before.articles[k].url
                   /\ articles[k].title = u_before.articles[k].title
                   /\ articles[k].is_processed =
                         u_before.articles[k].is_processed
              ELSE articles[k] = u_before.articles[k]
        /\ u_call.id \notin DOMAIN u_before.articles =>
              articles = u_before.articles

\* A committed call that relabels one row of a table whose other row is
\* labelled too.
C15_Witness ==
    /\ u_outcome = "returned"
    /\ Len(articles) = 2
    /\ u_call.id \in DOMAIN articles
    /\ articles[u_call.id] # u_before.articles[u_call.id]
    /\ \E k \in DOMAIN articles :
          k # u_call.id /\ articles[k].verified_label # NULL

\* C12: no two article rows share a url; a save_article_to_db call whose
\* url was stored already has returned False and has left the table, the
\* row of that url with its verified_label, label_source and is_processed
\* included, as it was; a call whose url was new has added one row.
C12_ArticleUrlUnique ==
    /\ \A j, k \in DOMAIN articles :
          articles[j].url = articles[k].url => j = k
    /\ last_call.op = "save_article_to_db" =>
          IF UrlPresent(last_call.before, last_call.data.url)
          THEN ~last_call.ret /\ articles = last_call.before
          ELSE /\ last_call.ret
               /\ articles = Append(last_call.before,
                                     NewArticle(last_call.data))

\* A repeated url whose row is labelled and scored by then.
C12_Witness ==
    /\ last_call.op = "save_article_to_db"
    /\ ~last_call.ret
    /\ Len(articles) = 2
    /\ \E k \in DOMAIN articles :
          /\ articles[k].url = last_call.data.url
          /\ articles[k].verified_label # NULL
          /\ articles[k].is_processed = 1

\* The prediction records of article a.
PredictionsOf(a) ==
    {n \in DOMAIN predictions : predictions[n].article_id = a}

\* The articles that were pending when the last scoring run started.
PendingAtStart ==
    {k \in DOMAIN lake_report.articles :
        lake_report.articles[k].is_processed = 0}

\* C17: after a scoring run that saved, every article that was pending
\* when it started has is_processed = 1 and one prediction record, of
\* model_version bow_logit_v1, with the label and confidence computed for
\* it; at any time no article has more than one prediction record; and up
\* to the run's end every row that existed at its start has the
\* verified_label and label_source it had then.
C17_ScoredOnceEach ==
    /\ lake_report.kind = "saved" =>
          /\ \A a \in PendingAtStart :
                /\ articles[a].is_processed = 1
                /\ Cardinality(PredictionsOf(a)) = 1
          /\ \A n \in DOMAIN lake_df :
                /\ lake_df[n].id \in PendingAtStart
                /\ \E m \in PredictionsOf(lake_df[n].id) :
                      predictions[m] =
                         [article_id |-> lake_df[n].id,
                          model_version |-> "bow_logit_v1",
                          predicted_label |-> lake_df[n].pred_label,
                          confidence_score |-> lake_df[n].confidence]
    /\ \A a \in DOMAIN articles : Cardinality(PredictionsOf(a)) <= 1
    /\ lake_report.kind # "none" =>
          \A k \in DOMAIN lake_report.articles :
             /\ articles[k].verified_label =
                   lake_report.articles[k].verified_label
             /\ articles[k].label_source =
                   lake_report.articles[k].label_source

\* A second scoring run has saved: it scored the article ingested after
\* the first run, and only that one, and the labelled row kept its label.
C17_Witness ==
    /\ lake_report.kind = "saved"
    /\ lake_pc = "idle"
    /\ Len(articles) = 2
    /\ Len(predictions) = 2
    /\ Cardinality(PendingAtStart) = 1
    /\ \E k \in DOMAIN articles : articles[k].verified_label # NULL

\* C19: an article has is_processed = 1 exactly if a prediction record
\* exists for it; and after a save_predictions call in which a statement
\* or the commit failed, both tables are what they were before the call.
C19_SaveIsAllOrNothing ==
    /\ \A a \in DOMAIN articles :
          articles[a].is_processed = 1 <=> PredictionsOf(a) # {}
    /\ lake_report.kind = "rolled_back" =>
          /\ predictions = lake_report.predictions
          /\ \A k \in DOMAIN lake_report.articles :
                articles[k] = lake_report.articles[k]

\* A batch of one was rolled back in a store whose other article had been
\* scored by an earlier run.
C19_Witness ==
    /\ lake_report.kind = "rolled_back"
    /\ Len(lake_df) = 1
    /\ Len(predictions) = 1
    /\ \E a \in DOMAIN articles : articles[a].is_processed = 1
    /\ articles[lake_df[1].id].is_processed = 0

\* C16: an ingestion run in which no entry lacked its link ends only with
\* the totals report, after every feed of RSS_SOURCES was processed,
\* whichever feeds could not be reached and whichever articles failed to
\* download or parse.
C16_FeedFailureDoesNotAbortBatch ==
    (hunter_pc = "idle" /\ hunter_report.kind \notin {"none", "no_link"}) =>
        /\ hunter_report.kind = "totals"
        /\ feed_idx = NumFeeds

====
